---- MODULE Spec2Model ----
(***************************************************************************)
(* Model of the AES-128 timing-attack core (src/src/main.c): the           *)
(* brute-force engine, the threshold calibrator, the measurement loop of   *)
(* a key study and the Pearson coefficient.                                *)
(*                                                                         *)
(* Scaling.  The program works on 16-byte blocks of 256-valued bytes; the  *)
(* model works on NPos-byte blocks of NByte-valued bytes.  A length byte   *)
(* of 0 in bf.dat stands for NByte candidates (256 in the program).        *)
(***************************************************************************)
EXTENDS Integers, Sequences, FiniteSets, TLC

\* ---------------------------------------------------------------- bounds
\* number of byte positions of a block (16 in the program)
NPos == 3
\* number of values of a byte (256 in the program)
NByte == 3
\* largest number of bytes cut off the end of bf.dat
MaxTrunc == 1

Pos == 0 .. (NPos - 1)
Byte == 0 .. (NByte - 1)

\* cleartext[16] = { 0 } of brute_force
cleartext == [p \in Pos |-> 0]

VARIABLES
    pc,             \* position of the program
    rc,             \* return value of brute_force
    bf_exists,      \* fopen(bf_name) succeeds
    bf_data,        \* content of bf.dat, a sequence of bytes
    fpos,           \* read position in bf.dat
    target_key,     \* key to crack
    current_key,    \* name of the buffer current_key points to
    expanded_key,   \* static expanded key of the cipher
    encdata,        \* trash can for encrypted data
    timed_expand,   \* history: the last run expanded a key between its tick reads
    target_enctext, \* reference ciphertext of brute_force
    lens, bytes, order, indices, key, ptr, bi,   \* locals of brute_force
    attempts,       \* history: number of calls of brute_force_attempt
    tried,          \* history: index vectors handed to brute_force_attempt
    keyfile,        \* outcome of reading aes.key
    d_arg,          \* threshold argument, counted in halves (0.5 is 1)
    exit_code,      \* exit status of main
    tally_threshold, total_runs, total_ticks,    \* globals of the core
    test_key, data, tly,                         \* locals of main
    ticks,          \* local of generate
    run_id, si,     \* study number and loop counter of study_key
    frate,          \* threshold written to enc_rate.txt, or -1
    cal_n, cal_sum, \* history: measurements of the calibration pass
    acc_n, acc_sum, \* history: measurements accepted in the current study
    studied,        \* history: number of finished key studies
    discarded,      \* history: the current study has discarded a measurement
    px, py, presult \* arguments and result of the Pearson coefficient

\* variables only the measurement side writes
msvars == << keyfile, d_arg, exit_code, tally_threshold, total_runs,
             total_ticks, test_key, data, tly, ticks, run_id, si, frate,
             cal_n, cal_sum, acc_n, acc_sum, studied, discarded >>

\* variables of the Pearson coefficient
pvars == << px, py, presult >>

\* variables only brute_force writes
bfvars == << rc, fpos, target_enctext, lens, bytes, order, indices, key,
             ptr, bi, attempts, tried >>

\* the cipher's state
aesvars == << current_key, expanded_key, encdata, timed_expand >>

\* the input files
invars == << bf_exists, bf_data, target_key >>

vars == << pc, invars, aesvars, bfvars, msvars, pvars >>

\* int tally_threshold = INT32_MAX
INT32_MAX == 2147483647

\* a buffer that holds no value yet
NoArr == [p \in Pos |-> 0]

\* memset(tly, 0, 16 * 256 * sizeof(struct tally))
ZeroTally == [p \in Pos |-> [b \in Byte |-> [num |-> 0, ticks |-> 0]]]

\* the globals and main's locals before main runs
MsInit ==
    /\ keyfile = "unread"
    /\ d_arg = 0
    /\ exit_code = -1
    /\ tally_threshold = INT32_MAX
    /\ total_runs = 0
    /\ total_ticks = 0
    /\ test_key = NoArr
    /\ data = NoArr
    /\ tly = ZeroTally
    /\ ticks = 0
    /\ run_id = 0
    /\ si = 0
    /\ frate = -1
    /\ cal_n = 0
    /\ cal_sum = 0
    /\ acc_n = 0
    /\ acc_sum = 0
    /\ studied = 0
    /\ discarded = FALSE

\* brute_force's locals and the cipher's state before brute_force runs
BfInit ==
    /\ rc = -1
    /\ fpos = 0
    /\ target_enctext = NoArr
    /\ lens = [p \in Pos |-> 0]
    /\ bytes = [p \in Pos |-> << >>]
    /\ order = NoArr
    /\ indices = [p \in Pos |-> 0]
    /\ key = NoArr
    /\ ptr = 0
    /\ bi = 0
    /\ attempts = 0
    /\ tried = {}
    /\ current_key = "none"
    /\ expanded_key = NoArr
    /\ encdata = NoArr
    /\ timed_expand = FALSE

PInit ==
    /\ px = << >>
    /\ py = << >>
    /\ presult = << >>

\* ------------------------------------------------------- cipher oracle
\* aes_expand: the expanded key is a private copy of the key
aes_expand(k) == k

\* aes: a keyed permutation of blocks; for a fixed cleartext, distinct
\* keys give distinct ciphertexts
aes(in, ek) == [p \in Pos |-> (in[p] + ek[(p + 1) % NPos] + p) % NByte]

\* #define PREEMPTIVE_KEYEXPAND: the key is expanded apart from the
\* encryptions
PREEMPTIVE_KEYEXPAND == 1

\* expand_key(key): the expanded key it leaves, ek being the one before
expand_key(k, ek) == IF PREEMPTIVE_KEYEXPAND = 1 THEN aes_expand(k) ELSE ek

\* a run that expands the key whatever the setting
RunExpands_always == TRUE

\* run expands current_key between its two tick reads
RunExpands == PREEMPTIVE_KEYEXPAND # 1

\* the expanded key run encrypts with, ck being the key current_key
\* points to and ek the expanded key on entry
RunKey(ck, ek) == IF RunExpands THEN aes_expand(ck) ELSE ek

\* ------------------------------------------------------------- bf.dat
\* candidates of one pool: len bytes starting at s
PoolBytes(len, s) == [j \in 1 .. len |-> (s + j - 1) % NByte]

\* a length that is taken as read
LenOf_raw(lb) == lb

\* a length byte of 0 denotes NByte candidates
LenOf(lb) == IF lb = 0 THEN NByte ELSE lb

RECURSIVE BfFile(_, _, _)
BfFile(lb, st, p) ==
    IF p = NPos THEN << >>
    ELSE << lb[p] >> \o PoolBytes(LenOf(lb[p]), st[p]) \o BfFile(lb, st, p + 1)

BfFiles ==
    { SubSeq(BfFile(lb, st, 0), 1, Len(BfFile(lb, st, 0)) - t) :
        lb \in [Pos -> Byte], st \in [Pos -> Byte], t \in 0 .. MaxTrunc }

\* contents of aes.key the model tries
TargetKeys == { [p \in Pos |-> 0], [p \in Pos |-> (p + 1) % NByte] }

\* -------------------------------------------------------- brute_force
\* a comparator that orders positions by ascending value
cmp_zip_ascending(p1, p2, val) ==
    IF val[p1] > val[p2] THEN 1
    ELSE IF val[p2] > val[p1] THEN -1
    ELSE 0

\* cmp_zip(p1, p2, vals): orders positions by their value, in reverse
cmp_zip(p1, p2, val) ==
    IF val[p2] > val[p1] THEN 1
    ELSE IF val[p1] > val[p2] THEN -1
    ELSE 0

\* qsort_r(order, 16, 1, cmp_zip, d_lens): any arrangement of the positions
\* that the comparator accepts as sorted (qsort_r is not a stable sort)
Sorted(val) ==
    { o \in [Pos -> Pos] :
        /\ \A p \in Pos : \E j \in Pos : o[j] = p
        /\ \A j \in 0 .. (NPos - 2) : cmp_zip(o[j], o[j + 1], val) <= 0 }

\* FILE *f = fopen(bf_name, "rb"); if (!f) return -1;
BFNoFile ==
    /\ pc = "bf_open"
    /\ ~bf_exists
    /\ rc' = -1
    /\ pc' = "bf_ret"
    /\ UNCHANGED << bf_exists, bf_data, fpos, target_key, current_key,
                    expanded_key, encdata, timed_expand, target_enctext, lens, bytes,
                    order, indices, key, ptr, bi, attempts, tried >>
    /\ UNCHANGED << msvars, pvars >>

\* expand_key(target_key); run(cleartext); memcpy(target_enctext, encdata, 16)
BFReference ==
    /\ pc = "bf_open"
    /\ bf_exists
    /\ current_key' = "target_key"
    /\ expanded_key' = RunKey(target_key, expand_key(target_key, expanded_key))
    /\ encdata' = aes(cleartext, expanded_key')
    /\ timed_expand' = RunExpands
    /\ target_enctext' = encdata'
    /\ bi' = 0
    /\ pc' = "bf_read"
    /\ UNCHANGED << rc, bf_exists, bf_data, fpos, target_key, lens, bytes,
                    order, indices, key, ptr, attempts, tried >>
    /\ UNCHANGED << msvars, pvars >>

\* one pass of the loop that reads the pool of position bi
BFRead ==
    /\ pc = "bf_read"
    /\ bi < NPos
    /\ IF fpos + 1 > Len(bf_data)
       THEN \* fread(lens + i, 1, 1, f) != 1
            /\ rc' = 1
            /\ pc' = "bf_ret"
            /\ UNCHANGED << fpos, lens, bytes, order, bi >>
       ELSE LET l == LenOf(bf_data[fpos + 1]) IN
            /\ lens' = [lens EXCEPT ![bi] = l]
            /\ IF fpos + 1 + l > Len(bf_data)
               THEN \* fread(bytes[i], 1, lens[i], f) != lens[i]
                    /\ rc' = 1
                    /\ pc' = "bf_ret"
                    /\ UNCHANGED << fpos, bytes, order, bi >>
               ELSE /\ bytes' = [bytes EXCEPT ![bi] =
                                   [j \in 0 .. (l - 1) |-> bf_data[fpos + 2 + j]]]
                    /\ fpos' = fpos + 1 + l
                    /\ order' = [order EXCEPT ![bi] = bi]
                    /\ bi' = bi + 1
                    /\ UNCHANGED << rc, pc >>
    /\ UNCHANGED << bf_exists, bf_data, target_key, current_key, expanded_key,
                    encdata, timed_expand, target_enctext, indices, key, ptr, attempts,
                    tried >>
    /\ UNCHANGED << msvars, pvars >>

\* fclose(f); qsort_r(order, 16, sizeof(byte), cmp_zip, d_lens);
\* byte *ptr = order, *end = order + 16;
BFSort ==
    /\ pc = "bf_read"
    /\ bi = NPos
    /\ order' \in Sorted(lens)
    /\ ptr' = 0
    /\ pc' = "bf_loop"
    /\ UNCHANGED << rc, bf_exists, bf_data, fpos, target_key, current_key,
                    expanded_key, encdata, timed_expand, target_enctext, lens, bytes,
                    indices, key, bi, attempts, tried >>
    /\ UNCHANGED << msvars, pvars >>

\* a comparison that stops after the first byte
brute_force_attempt_first(enc, tgt) ==
    IF tgt[0] # enc[0] THEN 1 ELSE 0

\* a comparison with the test inverted
brute_force_attempt_inverted(enc, tgt) ==
    IF \E p \in Pos : tgt[p] = enc[p] THEN 1 ELSE 0

\* a comparison that leaves out the last byte
brute_force_attempt_short(enc, tgt) ==
    IF \E p \in 0 .. (NPos - 2) : tgt[p] # enc[p] THEN 1 ELSE 0

\* brute_force_attempt(key, data, target_enctext): 0 on a match, 1 otherwise
brute_force_attempt(enc, tgt) ==
    IF \E p \in Pos : tgt[p] # enc[p] THEN 1 ELSE 0

\* while (ptr < end): ptr = order; assemble the key and try it
BFAttempt ==
    /\ pc = "bf_loop"
    /\ ptr < NPos
    /\ ptr' = 0
    /\ key' = [p \in Pos |-> bytes[p][indices[p]]]
    /\ current_key' = "key"
    /\ expanded_key' = RunKey(key', expand_key(key', expanded_key))
    /\ encdata' = aes(cleartext, expanded_key')
    /\ timed_expand' = RunExpands
    /\ attempts' = attempts + 1
    /\ tried' = tried \cup { indices }
    /\ IF brute_force_attempt(encdata', target_enctext) = 0
       THEN rc' = 0 /\ pc' = "bf_ret"
       ELSE rc' = rc /\ pc' = "bf_carry"
    /\ UNCHANGED << bf_exists, bf_data, fpos, target_key, target_enctext,
                    lens, bytes, order, indices, bi >>
    /\ UNCHANGED << msvars, pvars >>

\* a carry that leaves out the last candidate of a pool
CarryOut_early(ix, len) == ix + 2 >= len

\* the test of while (++indices[*ptr] >= lens[*ptr]), ix the index before ++
CarryOut(ix, len) == ix + 1 >= len

\* one test of while (++indices[*ptr] >= lens[*ptr])
BFCarry ==
    /\ pc = "bf_carry"
    /\ LET p == order[ptr] IN
       IF CarryOut(indices[p], lens[p])
       THEN /\ indices' = [indices EXCEPT ![p] = 0]
            /\ ptr' = ptr + 1
            /\ pc' = IF ptr + 1 >= NPos THEN "bf_loop" ELSE "bf_carry"
       ELSE /\ indices' = [indices EXCEPT ![p] = indices[p] + 1]
            /\ ptr' = ptr
            /\ pc' = "bf_loop"
    /\ UNCHANGED << rc, bf_exists, bf_data, fpos, target_key, current_key,
                    expanded_key, encdata, timed_expand, target_enctext, lens, bytes,
                    order, key, bi, attempts, tried >>
    /\ UNCHANGED << msvars, pvars >>

\* the loop ends with ptr == end: return 1
BFExhausted ==
    /\ pc = "bf_loop"
    /\ ptr >= NPos
    /\ rc' = 1
    /\ pc' = "bf_ret"
    /\ UNCHANGED << bf_exists, bf_data, fpos, target_key, current_key,
                    expanded_key, encdata, timed_expand, target_enctext, lens, bytes,
                    order, indices, key, ptr, bi, attempts, tried >>
    /\ UNCHANGED << msvars, pvars >>

\* the key in the buffer current_key points to
CurrentKey ==
    CASE current_key = "target_key" -> target_key
      [] current_key = "test_key" -> test_key
      [] current_key = "key" -> key
      [] OTHER -> NoArr

\* ------------------------------------------------------------ main
\* largest threshold argument the model tries, in halves
MaxArg == 5
\* tick counts of an undisturbed encryption are 1 .. MaxTick
MaxTick == 2
\* tick count of a disturbed encryption
OutlierTick == 11
\* #define DEFAULT_RUNS: 2^DEFAULT_RUNS encryptions are done per key
DEFAULT_RUNS == 1
\* #define KEYS_CAP: this many test keys are tried against the target
KEYS_CAP == 2
\* #define THRESH_MULT
THRESH_MULT == 5

\* runs = 1 << DEFAULT_RUNS
runs == 2 ^ DEFAULT_RUNS

\* values run() returns
TickVals == (1 .. MaxTick) \cup { OutlierTick }

\* blocks rand_bytes produces
RandBlocks == { [p \in Pos |-> (k + p) % NByte] : k \in 0 .. 1 }

\* values strtod gives d_arg, in halves
ArgVals == (-1) .. MaxArg

\* if (argc > 1) d_arg = strtod(argv[1], NULL);
MainReadArg ==
    /\ pc = "main"
    /\ \/ d_arg' = d_arg
       \/ d_arg' \in ArgVals
    /\ pc' = "main_key"
    /\ UNCHANGED << invars, aesvars, bfvars, pvars >>
    /\ UNCHANGED << keyfile, exit_code, tally_threshold, total_runs,
                    total_ticks, test_key, data, tly, ticks, run_id, si,
                    frate, cal_n, cal_sum, acc_n, acc_sum, studied, discarded >>

\* fopen(fkey_name) and fread(target_key, 1, 16, fkey)
MainReadKey ==
    /\ pc = "main_key"
    /\ \E outcome \in {"missing", "short", "ok"} :
        /\ keyfile' = outcome
        /\ IF outcome = "ok"
           THEN /\ target_key' \in TargetKeys
                /\ pc' = "bf_open"
                /\ UNCHANGED exit_code
           ELSE /\ exit_code' = 1
                /\ pc' = "exit"
                /\ UNCHANGED target_key
    /\ UNCHANGED << bf_exists, bf_data, aesvars, bfvars, pvars >>
    /\ UNCHANGED << d_arg, tally_threshold, total_runs, total_ticks,
                    test_key, data, tly, ticks, run_id, si, frate, cal_n,
                    cal_sum, acc_n, acc_sum, studied, discarded >>

\* a test that lets a successful brute force fall through
MainReturns_positive(r) == r > 0

\* if (rc > -1) return rc;
MainReturns(r) == r > -1

\* int rc = brute_force(); if (rc > -1) return rc;
MainAfterBF ==
    /\ pc = "bf_ret"
    /\ IF MainReturns(rc)
       THEN exit_code' = rc /\ pc' = "exit"
       ELSE exit_code' = exit_code /\ pc' = "calib"
    /\ UNCHANGED << invars, aesvars, bfvars, pvars >>
    /\ UNCHANGED << keyfile, d_arg, tally_threshold, total_runs, total_ticks,
                    test_key, data, tly, ticks, run_id, si, frate, cal_n,
                    cal_sum, acc_n, acc_sum, studied, discarded >>

\* ------------------------------------------- calc_encryption_stats
\* a test that also takes an argument of 0 as a threshold
ThreshGiven_orzero(d) == d >= 0

\* if (d_arg > 0)
ThreshGiven(d) == d > 0

\* tally_threshold = d_arg: a double (in halves) converted to int
DoubleToInt(d) == d \div 2

\* a threshold that multiplies before it divides
CalcThreshold_mulfirst(tt, tr) == (tt * THRESH_MULT) \div tr

\* tally_threshold = total_ticks / total_runs * THRESH_MULT, in long long
CalcThreshold(tt, tr) == (tt \div tr) * THRESH_MULT

\* If threshold is set, do not calculate it
CalcSkip ==
    /\ pc = "calib"
    /\ ThreshGiven(d_arg)
    /\ tally_threshold' = DoubleToInt(d_arg)
    /\ pc' = "study"
    /\ UNCHANGED << invars, aesvars, bfvars, pvars >>
    /\ UNCHANGED << keyfile, d_arg, exit_code, total_runs, total_ticks,
                    test_key, data, tly, ticks, run_id, si, frate, cal_n,
                    cal_sum, acc_n, acc_sum, studied, discarded >>

\* rand_bytes(key, 16); expand_key(key); total_runs = 0
CalcBegin ==
    /\ pc = "calib"
    /\ ~ThreshGiven(d_arg)
    /\ test_key' \in RandBlocks
    /\ current_key' = "test_key"
    /\ expanded_key' = expand_key(test_key', expanded_key)
    /\ total_runs' = 0
    /\ pc' = "calib_loop"
    /\ UNCHANGED << invars, encdata, timed_expand, bfvars, pvars >>
    /\ UNCHANGED << keyfile, d_arg, exit_code, tally_threshold, total_ticks,
                    data, tly, ticks, run_id, si, frate, cal_n, cal_sum,
                    acc_n, acc_sum, studied, discarded >>

\* one pass of the loop: rand_bytes(data, 16); total_ticks += run(data)
CalcRun ==
    /\ pc = "calib_loop"
    /\ total_runs < runs
    /\ data' \in RandBlocks
    /\ expanded_key' = RunKey(CurrentKey, expanded_key)
    /\ encdata' = aes(data', expanded_key')
    /\ timed_expand' = RunExpands
    /\ \E t \in TickVals :
        /\ total_ticks' = total_ticks + t
        /\ cal_sum' = cal_sum + t
    /\ total_runs' = total_runs + 1
    /\ cal_n' = cal_n + 1
    /\ UNCHANGED << pc, invars, current_key, bfvars, pvars >>
    /\ UNCHANGED << keyfile, d_arg, exit_code, tally_threshold, test_key,
                    tly, ticks, run_id, si, frate, acc_n, acc_sum, studied, discarded >>

\* the threshold is set and written to enc_rate.txt
CalcFinish ==
    /\ pc = "calib_loop"
    /\ ~(total_runs < runs)
    /\ tally_threshold' = CalcThreshold(total_ticks, total_runs)
    /\ frate' = tally_threshold'
    /\ pc' = "study"
    /\ UNCHANGED << invars, aesvars, bfvars, pvars >>
    /\ UNCHANGED << keyfile, d_arg, exit_code, total_runs, total_ticks,
                    test_key, data, tly, ticks, run_id, si, cal_n, cal_sum,
                    acc_n, acc_sum, studied, discarded >>

\* ---------------------------------------------------------- study_key
\* a memset that is left out
memset_tally_none(t) == t

\* memset(tly, 0, 16 * 256 * sizeof(struct tally))
memset_tally(t) == ZeroTally

\* a reset that is left out
reset_counter_none(c) == c

\* total_ticks = total_runs = 0
reset_counter(c) == 0

\* a loop test that runs one pass too many
StudyLoopCond_inclusive(i, n) == i <= n

\* for (int i = 0; i < runs; ++i)
StudyLoopCond(i, n) == i < n

\* study_key up to its loop: the tally is cleared, the key is generated
\* (gen_key is 0 for the target study, 1 for a test study) and expanded,
\* the counters are zeroed
StudyBegin ==
    /\ pc = "study"
    /\ tly' = memset_tally(tly)
    /\ IF run_id = 0
       THEN /\ UNCHANGED test_key
            /\ current_key' = "target_key"
            /\ expanded_key' = expand_key(target_key, expanded_key)
       ELSE /\ test_key' \in RandBlocks
            /\ current_key' = "test_key"
            /\ expanded_key' = expand_key(test_key', expanded_key)
    /\ total_ticks' = reset_counter(total_ticks)
    /\ total_runs' = reset_counter(total_runs)
    /\ si' = 0
    /\ acc_n' = 0
    /\ acc_sum' = 0
    /\ discarded' = FALSE
    /\ pc' = "study_loop"
    /\ UNCHANGED << invars, encdata, timed_expand, bfvars, pvars >>
    /\ UNCHANGED << keyfile, d_arg, exit_code, tally_threshold, data, ticks,
                    run_id, frate, cal_n, cal_sum, studied >>

\* generate is called: rand_bytes(data, 16)
GenDraw ==
    /\ pc = "study_loop"
    /\ StudyLoopCond(si, runs)
    /\ data' \in RandBlocks
    /\ pc' = "gen_run"
    /\ UNCHANGED << invars, aesvars, bfvars, pvars >>
    /\ UNCHANGED << keyfile, d_arg, exit_code, tally_threshold, total_runs,
                    total_ticks, test_key, tly, ticks, run_id, si, frate,
                    cal_n, cal_sum, acc_n, acc_sum, studied, discarded >>

\* a filter that also discards a measurement of exactly the threshold
Outlier_inclusive(t, thr) == t >= thr

\* while (ticks > tally_threshold)
Outlier(t, thr) == t > thr

\* one pass of do { ticks = run(data); } while (ticks > tally_threshold)
GenRun ==
    /\ pc = "gen_run"
    /\ ticks' \in TickVals
    /\ expanded_key' = RunKey(CurrentKey, expanded_key)
    /\ encdata' = aes(data, expanded_key')
    /\ timed_expand' = RunExpands
    /\ IF Outlier(ticks', tally_threshold)
       THEN /\ discarded' = TRUE
            /\ UNCHANGED << pc, acc_n, acc_sum >>
       ELSE /\ acc_n' = acc_n + 1
            /\ acc_sum' = acc_sum + ticks'
            /\ pc' = "gen_tally"
            /\ UNCHANGED discarded
    /\ UNCHANGED << invars, current_key, bfvars, pvars >>
    /\ UNCHANGED << keyfile, d_arg, exit_code, tally_threshold, total_runs,
                    total_ticks, test_key, data, tly, run_id, si, frate,
                    cal_n, cal_sum, studied >>

\* the tally of one measurement: for every position p the cell of the
\* cleartext byte d[p] counts one more run and t more ticks
Tally(t, d, tk) ==
    [p \in Pos |-> [b \in Byte |->
        IF b = d[p]
        THEN [num |-> t[p][b].num + 1, ticks |-> t[p][b].ticks + tk]
        ELSE t[p][b]]]

\* the end of generate: the measurement is tallied and counted
GenTally ==
    /\ pc = "gen_tally"
    /\ tly' = Tally(tly, data, ticks)
    /\ total_ticks' = total_ticks + ticks
    /\ total_runs' = total_runs + 1
    /\ si' = si + 1
    /\ pc' = "study_loop"
    /\ UNCHANGED << invars, aesvars, bfvars, pvars >>
    /\ UNCHANGED << keyfile, d_arg, exit_code, tally_threshold, test_key,
                    data, ticks, run_id, frate, cal_n, cal_sum, acc_n,
                    acc_sum, studied, discarded >>

\* the loop of study_key ends, study_key returns, and main goes on to the
\* next test key if there is one
StudyEnd ==
    /\ pc = "study_loop"
    /\ ~StudyLoopCond(si, runs)
    /\ studied' = studied + 1
    /\ run_id' = run_id + 1
    /\ pc' = IF run_id + 1 <= KEYS_CAP THEN "study" ELSE "main_end"
    /\ UNCHANGED << invars, aesvars, bfvars, pvars >>
    /\ UNCHANGED << keyfile, d_arg, exit_code, tally_threshold, total_runs,
                    total_ticks, test_key, data, tly, ticks, si, frate,
                    cal_n, cal_sum, acc_n, acc_sum, discarded >>

\* dump_corr(corr_total, "corr.txt"); return 0;
MainEnd ==
    /\ pc = "main_end"
    /\ exit_code' = 0
    /\ pc' = "exit"
    /\ UNCHANGED << invars, aesvars, bfvars, pvars >>
    /\ UNCHANGED << keyfile, d_arg, tally_threshold, total_runs, total_ticks,
                    test_key, data, tly, ticks, run_id, si, frate, cal_n,
                    cal_sum, acc_n, acc_sum, studied, discarded >>

\* ------------------------------------------------- the whole program
\* bf.dat files the whole-program model tries: every pool alike
MainBfFiles ==
    { SubSeq(BfFile([p \in Pos |-> l], [p \in Pos |-> st], 0), 1,
             Len(BfFile([p \in Pos |-> l], [p \in Pos |-> st], 0)) - t) :
        l \in Byte, st \in Byte, t \in 0 .. MaxTrunc }

Init ==
    /\ pc = "main"
    /\ \/ bf_exists = TRUE /\ bf_data \in MainBfFiles
       \/ bf_exists = FALSE /\ bf_data = << >>
    /\ target_key = NoArr
    /\ BfInit
    /\ MsInit
    /\ PInit

Next ==
    \/ MainReadArg
    \/ MainReadKey
    \/ BFNoFile
    \/ BFReference
    \/ BFRead
    \/ BFSort
    \/ BFAttempt
    \/ BFCarry
    \/ BFExhausted
    \/ MainAfterBF
    \/ CalcSkip
    \/ CalcBegin
    \/ CalcRun
    \/ CalcFinish
    \/ StudyBegin
    \/ GenDraw
    \/ GenRun
    \/ GenTally
    \/ StudyEnd
    \/ MainEnd

Spec == Init /\ [][Next]_vars

\* ------------------------------------------- brute_force on its own
\* brute_force is entered with the target key read and bf.dat as found
InitBF ==
    /\ pc = "bf_open"
    /\ \/ bf_exists = TRUE /\ bf_data \in BfFiles
       \/ bf_exists = FALSE /\ bf_data = << >>
    /\ target_key \in TargetKeys
    /\ BfInit
    /\ MsInit
    /\ PInit

NextBF ==
    \/ BFNoFile
    \/ BFReference
    \/ BFRead
    \/ BFSort
    \/ BFAttempt
    \/ BFCarry
    \/ BFExhausted

SpecBF == InitBF /\ [][NextBF]_vars

\* -------------------------------------- pearson_correlation_coefficient
\* The doubles of the program are modelled by exact fractions << n, d >>
\* in lowest terms with d > 0.
RECURSIVE GCD(_, _)
GCD(a, b) == IF b = 0 THEN a ELSE GCD(b, a % b)

Abs(a) == IF a < 0 THEN -a ELSE a

Frac(n, d) ==
    LET g == GCD(Abs(n), Abs(d))
        sg == IF d < 0 THEN -1 ELSE 1
    IN  << (sg * n) \div g, (sg * d) \div g >>

FSub(x, y) == Frac(x[1] * y[2] - y[1] * x[2], x[2] * y[2])
FMul(x, y) == Frac(x[1] * y[1], x[2] * y[2])
FDiv(x, y) == Frac(x[1] * y[2], x[2] * y[1])
FInt(n) == << n, 1 >>

\* the sum over i of f[i] * g[i], as the loop accumulates it
RECURSIVE SumProd(_, _, _)
SumProd(f, g, i) == IF i = NByte THEN 0 ELSE f[i] * g[i] + SumProd(f, g, i + 1)

Ones == [b \in Byte |-> 1]

\* the coefficient with the variances divided by dv; the result
\* [num, rad] stands for the double num / sqrt(rad)
PearsonWith(data1, data2, dv) ==
    LET sum_x_sq == SumProd(data1, data1, 0)
        sum_y_sq == SumProd(data2, data2, 0)
        sum_x_y == SumProd(data1, data2, 0)
        avg_x == FDiv(FInt(SumProd(data1, Ones, 0)), FInt(NByte))
        avg_y == FDiv(FInt(SumProd(data2, Ones, 0)), FInt(NByte))
        var_x == FDiv(FSub(FInt(sum_x_sq), FMul(FInt(NByte), FMul(avg_x, avg_x))),
                      FInt(dv))
        var_y == FDiv(FSub(FInt(sum_y_sq), FMul(FInt(NByte), FMul(avg_y, avg_y))),
                      FInt(dv))
    IN  [ num |-> FDiv(FSub(FInt(sum_x_y), FMul(FInt(NByte), FMul(avg_x, avg_y))),
                       FInt(NByte - 1)),
          rad |-> FMul(var_x, var_y) ]

\* a coefficient whose variances are divided by the number of samples
pearson_population_variance(data1, data2) == PearsonWith(data1, data2, NByte)

\* pearson_correlation_coefficient(data1, data2) on vectors of NByte samples
pearson_correlation_coefficient(data1, data2) ==
    PearsonWith(data1, data2, NByte - 1)

\* sample vectors the model tries
Samples == [Byte -> 0 .. NByte]

InitPearson ==
    /\ pc = "pearson"
    /\ px \in Samples
    /\ py \in Samples
    /\ presult = << >>
    /\ bf_exists = FALSE
    /\ bf_data = << >>
    /\ target_key = NoArr
    /\ BfInit
    /\ MsInit

\* the coefficient of px and py is computed
PearsonCall ==
    /\ pc = "pearson"
    /\ presult' = pearson_correlation_coefficient(px, py)
    /\ pc' = "pearson_ret"
    /\ UNCHANGED << px, py, invars, aesvars, bfvars, msvars >>

NextPearson == PearsonCall

SpecPearson == InitPearson /\ [][NextPearson]_vars

\* the double r.num / sqrt(r.rad) is 1.0
IsOne(r) ==
    r.rad[1] > 0 /\ r.rad[2] > 0 /\ r.num[1] > 0 /\ FMul(r.num, r.num) = r.rad

\* the double r.num / sqrt(r.rad) is -1.0
IsMinusOne(r) ==
    r.rad[1] > 0 /\ r.rad[2] > 0 /\ r.num[1] < 0 /\ FMul(r.num, r.num) = r.rad

\* X = [0, 1, ..., 255] and its reverse
Ramp == [b \in Byte |-> b]
Reversed(x) == [b \in Byte |-> x[NByte - 1 - b]]

\* C8: the coefficient of two identical non-constant vectors, the ramp
\* [0, 1, ...] among them, is 1.0, and that of the ramp and its reverse is
\* -1.0: the covariance term is +sqrt(var_x * var_y), respectively
\* -sqrt(var_x * var_y).
C8_PearsonSpotCheck ==
    pc = "pearson_ret" =>
        /\ (px = py /\ (\E a, b \in Byte : px[a] # px[b])) => IsOne(presult)
        /\ (px = Ramp /\ py = Reversed(Ramp)) => IsMinusOne(presult)

\* the coefficient of the ramp and its reverse has been computed
C8_Witness ==
    /\ pc = "pearson_ret"
    /\ px = Ramp /\ py = Reversed(Ramp)
    /\ IsMinusOne(presult)

\* ------------------------------------------------ brute-force claims
\* bf.dat was read to its end: every pool is in lens and bytes
PoolsRead == bf_exists /\ bi = NPos /\ pc \in {"bf_read", "bf_loop", "bf_carry", "bf_ret"}

\* the pool of position p holds the target key's byte
Contains(p) == \E j \in DOMAIN bytes[p] : bytes[p][j] = target_key[p]

RECURSIVE Prod(_, _)
Prod(l, p) == IF p = NPos THEN 1 ELSE l[p] * Prod(l, p + 1)

\* the size of the key space, prod(L_i)
ProdLens == Prod(lens, 0)

\* every index vector with one index per pool
AllIndices == { ix \in [Pos -> Byte] : \A p \in Pos : ix[p] < lens[p] }

\* the candidate key of an index vector
KeyOf(ix) == [p \in Pos |-> bytes[p][ix[p]]]

\* brute_force goes on until it returns
BFProgress == pc \in {"bf_open", "bf_read", "bf_loop", "bf_carry"} => ENABLED NextBF

\* C1: when every pool holds the target key's byte, brute_force makes at
\* most prod(L_i) attempts, the carry never runs past the last position of
\* order, the search never stalls, and brute_force returns 0.
C1_HitWithinProduct ==
    (PoolsRead /\ \A p \in Pos : Contains(p)) =>
        /\ attempts <= ProdLens
        /\ ptr < NPos
        /\ BFProgress
        /\ (pc = "bf_ret" => rc = 0)

\* a hit on the very last combination of pools that have more than one
C1_Witness ==
    /\ PoolsRead /\ pc = "bf_ret" /\ rc = 0
    /\ \A p \in Pos : Contains(p)
    /\ attempts = ProdLens
    /\ ProdLens > NPos

\* C2: when some pool lacks the target key's byte, brute_force never
\* reports success, never stalls, and returns 1.
C2_MissReturnsOne ==
    (PoolsRead /\ \E p \in Pos : ~Contains(p)) =>
        /\ rc # 0
        /\ BFProgress
        /\ (pc = "bf_ret" => rc = 1)

\* an exhausted search over pools one of which lacks the target byte
C2_Witness ==
    /\ PoolsRead /\ pc = "bf_ret" /\ rc = 1
    /\ \E p \in Pos : ~Contains(p)
    /\ \E p \in Pos : Contains(p) /\ lens[p] > 1
    /\ attempts > 1

\* C9 as claimed: after the reordering, order lists the positions by
\* ascending pool size.
C9_AscendingOrder ==
    (PoolsRead /\ pc \in {"bf_loop", "bf_carry", "bf_ret"}) =>
        \A j \in 0 .. (NPos - 2) : lens[order[j]] <= lens[order[j + 1]]

\* C9 as amended: after the reordering, order is a permutation of the
\* positions by descending pool size, so order[0], the counter stepped on
\* every attempt, is a position with the largest pool.
C9_DescendingOrder ==
    (PoolsRead /\ pc \in {"bf_loop", "bf_carry", "bf_ret"}) =>
        /\ \A p \in Pos : \E j \in Pos : order[j] = p
        /\ \A j \in 0 .. (NPos - 2) : lens[order[j]] >= lens[order[j + 1]]
        /\ \A p \in Pos : lens[order[0]] >= lens[p]

\* the reordering has moved positions: the pools grow with the position
C9_Witness ==
    /\ PoolsRead /\ pc = "bf_carry"
    /\ \A j \in 0 .. (NPos - 2) : lens[j] < lens[j + 1]
    /\ order[0] = NPos - 1

\* C10: no index vector is tried twice; when no candidate key matches the
\* reference ciphertext, brute_force returns 1, and whenever it returns 1
\* after reading the pools it has made exactly prod(L_i) attempts, one for
\* every index vector.
C10_ExhaustiveOnce ==
    PoolsRead =>
        /\ Cardinality(tried) = attempts
        /\ tried \subseteq AllIndices
        /\ BFProgress
        /\ (pc = "bf_ret" /\ rc = 1 =>
                tried = AllIndices /\ attempts = ProdLens)
        /\ (pc = "bf_ret" /\ (\A ix \in AllIndices :
                    aes(cleartext, aes_expand(KeyOf(ix))) # target_enctext)
                => rc = 1)

\* an exhausted search over at least two pools with several candidates
C10_Witness ==
    /\ PoolsRead /\ pc = "bf_ret" /\ rc = 1
    /\ attempts = ProdLens
    /\ Cardinality({ p \in Pos : lens[p] > 1 }) >= 2

\* ------------------------------------------------ whole-program claims
\* positions of the program inside calibration or a key study
MeasuringPcs == {"calib", "calib_loop", "study", "study_loop", "gen_run",
                 "gen_tally", "main_end"}

\* no calibration and no key study has run
NothingMeasured ==
    /\ cal_n = 0 /\ frate = -1 /\ tally_threshold = INT32_MAX
    /\ studied = 0 /\ acc_n = 0 /\ total_runs = 0 /\ total_ticks = 0

\* brute_force has not started
NoBruteForce == attempts = 0 /\ rc = -1 /\ bi = 0 /\ target_enctext = NoArr

\* C3: main exits with 1 and without brute force or measurement when
\* aes.key is missing or short; with bf.dat present it exits with
\* brute_force's result, 0 exactly on a match and 1 otherwise, without any
\* measurement; without bf.dat it exits with 0 after calibration (unless a
\* threshold was given) and all 1 + KEYS_CAP key studies.
C3_ExitCodes ==
    /\ (exit_code # -1) <=> (pc = "exit")
    /\ keyfile \in {"missing", "short"} =>
          /\ pc = "exit" /\ exit_code = 1
          /\ NoBruteForce /\ NothingMeasured /\ current_key = "none"
    /\ (keyfile = "ok" /\ bf_exists) =>
          /\ NothingMeasured
          /\ pc \notin MeasuringPcs
          /\ pc = "exit" =>
                /\ exit_code \in {0, 1}
                /\ exit_code = rc
                /\ (exit_code = 0) <=> (attempts > 0 /\ encdata = target_enctext)
                /\ (exit_code = 1 /\ bi = NPos) => attempts = ProdLens
    /\ (keyfile = "ok" /\ ~bf_exists /\ pc = "exit") =>
          /\ exit_code = 0
          /\ NoBruteForce
          /\ studied = KEYS_CAP + 1
          /\ (d_arg <= 0 => cal_n = runs /\ frate # -1)

\* main has returned brute_force's success after several attempts
C3_Witness ==
    /\ pc = "exit" /\ keyfile = "ok" /\ bf_exists
    /\ exit_code = 0 /\ attempts > 1

RECURSIVE SumNum(_, _)
SumNum(row, b) == IF b = NByte THEN 0 ELSE row[b].num + SumNum(row, b + 1)

RECURSIVE SumTicks(_, _)
SumTicks(row, b) == IF b = NByte THEN 0 ELSE row[b].ticks + SumTicks(row, b + 1)

\* C4: between the measurements of a key study and after every return of
\* study_key, each position's counts add up to total_runs and each
\* position's tick sums add up to total_ticks.
C4_TallyConservation ==
    (pc = "study_loop" \/ (studied > 0 /\ pc \in {"study", "main_end", "exit"})) =>
        \A p \in Pos :
            /\ SumNum(tly[p], 0) = total_runs
            /\ SumTicks(tly[p], 0) = total_ticks

\* a test-key study has returned with measurements in different cells
C4_Witness ==
    /\ pc = "study" /\ studied = 2
    /\ total_runs = runs /\ total_ticks > runs
    /\ \E p \in Pos : \E b1, b2 \in Byte :
          b1 # b2 /\ tly[p][b1].num > 0 /\ tly[p][b2].num > 0

\* C5: a study's loop ends with total_runs equal to runs and to the number
\* of accepted measurements and total_ticks equal to their tick sum; the
\* tally of an accepted measurement adds one run and its ticks to the cell
\* of its cleartext byte at every position and changes no other cell.
C5_AcceptedAccounting ==
    [][ /\ (pc = "gen_tally") =>
              /\ \A p \in Pos : \A b \in Byte :
                    /\ tly'[p][b].num =
                          tly[p][b].num + (IF b = data[p] THEN 1 ELSE 0)
                    /\ tly'[p][b].ticks =
                          tly[p][b].ticks + (IF b = data[p] THEN ticks ELSE 0)
              /\ total_runs' = total_runs + 1
              /\ total_ticks' = total_ticks + ticks
        /\ (pc' = "study_loop") =>
              total_runs' = acc_n' /\ total_ticks' = acc_sum'
        /\ (pc = "study_loop" /\ studied' = studied + 1) =>
              total_runs = runs /\ acc_n = runs /\ total_ticks = acc_sum
      ]_vars

\* a study has returned after discarding a measurement on the way
C5_Witness ==
    /\ pc = "study" /\ studied >= 1 /\ discarded
    /\ total_runs = runs /\ acc_n = runs /\ total_ticks = acc_sum

\* what calc_encryption_stats leaves alone when it skips calibration
C6_SkipFrame ==
    /\ pc' = "study"
    /\ UNCHANGED << encdata, expanded_key, current_key, test_key, data,
                    total_runs, total_ticks, frate, cal_n, cal_sum >>

\* what calc_encryption_stats does when no threshold is given
C6_Calibrates ==
    /\ (pc = "calib" /\ d_arg <= 0) =>
          pc' = "calib_loop" /\ tally_threshold' = tally_threshold
    /\ (pc = "calib_loop" /\ pc' = "study") =>
          d_arg <= 0 /\ cal_n = runs /\ frate' = tally_threshold'

\* C6 as claimed: with an argument > 0 calibration is skipped and
\* tally_threshold becomes the supplied value.
C6_ThresholdIsArgument ==
    [][ /\ (pc = "calib" /\ d_arg > 0) =>
              C6_SkipFrame /\ 2 * tally_threshold' = d_arg
        /\ C6_Calibrates
      ]_vars

\* C6 as amended: with an argument > 0 calibration is skipped (no
\* encryption, no key, counters and rate file untouched) and
\* tally_threshold becomes the integer part of the supplied value; with no
\* argument or one <= 0 calibration runs and sets the threshold.
C6_ThresholdIsTruncatedArgument ==
    [][ /\ (pc = "calib" /\ d_arg > 0) =>
              /\ C6_SkipFrame
              /\ 2 * tally_threshold' <= d_arg
              /\ d_arg < 2 * tally_threshold' + 2
        /\ C6_Calibrates
      ]_vars

\* calibration was skipped with the argument 1.5
C6_Witness ==
    /\ pc = "study" /\ run_id = 0 /\ d_arg = 3
    /\ tally_threshold = 1 /\ cal_n = 0 /\ frate = -1
    /\ total_runs = 0 /\ current_key = "none"

\* the calibration pass has finished
Calibrated == frate # -1

\* C7 as claimed: the cutoff is the mean of the R tick values times
\* THRESH_MULT (taken down to an integer).
C7_ThresholdIsMeanTimesMult ==
    Calibrated => tally_threshold = (THRESH_MULT * cal_sum) \div cal_n

\* C7 as amended: calibration makes exactly runs measurements, counts each
\* whatever its duration, ends with total_runs = runs and total_ticks the
\* sum of all tick values, and sets the cutoff to the integer quotient
\* total_ticks / total_runs times THRESH_MULT.
C7_Calibration ==
    /\ pc = "calib_loop" =>
          total_runs = cal_n /\ total_ticks = cal_sum /\ cal_n <= runs
    /\ Calibrated =>
          /\ cal_n = runs
          /\ tally_threshold = (cal_sum \div runs) * THRESH_MULT
          /\ frate = tally_threshold
    /\ (Calibrated /\ pc = "study" /\ run_id = 0) =>
          total_runs = runs /\ total_ticks = cal_sum
    /\ (d_arg <= 0 /\ pc \in (MeasuringPcs \ {"calib", "calib_loop"})) =>
          Calibrated

\* calibration has counted an outlier and the mean is not an integer
C7_Witness ==
    /\ Calibrated /\ pc = "study" /\ run_id = 0
    /\ total_runs = runs
    /\ total_ticks >= OutlierTick
    /\ total_ticks % runs # 0

\* C11: in generate a measurement is discarded exactly when its ticks
\* exceed tally_threshold (ticks equal to it are accepted); a discarded
\* measurement is retried with the plaintext drawn at the start of
\* generate, nothing is tallied or counted for it, and generate goes on to
\* the tally, and from there returns, only with ticks <= tally_threshold.
C11_OutlierFilter ==
    [][ /\ (pc = "gen_run" /\ ticks' > tally_threshold) =>
              /\ pc' = "gen_run"
              /\ UNCHANGED << data, tly, total_runs, total_ticks, si, acc_n >>
        /\ (pc = "gen_run" /\ ticks' <= tally_threshold) =>
              /\ pc' = "gen_tally"
              /\ acc_n' = acc_n + 1
              /\ UNCHANGED << data, tly, total_runs, total_ticks, si >>
        /\ (pc = "gen_tally") =>
              ticks <= tally_threshold /\ data' = data /\ ticks' = ticks
        /\ (pc \in {"gen_run", "gen_tally"} /\ pc' = "study_loop") =>
              pc = "gen_tally" /\ si' = si + 1 /\ acc_n = si + 1
      ]_vars

\* a measurement of exactly the threshold is accepted after a discard
C11_Witness ==
    /\ pc = "gen_tally"
    /\ ticks = tally_threshold
    /\ discarded
    /\ acc_n = si + 1

\* the positions of the program inside a key study
StudyPcs == {"study_loop", "gen_run", "gen_tally"}

\* C13: when a key study starts measuring, the tally table is all zero and
\* total_runs and total_ticks are 0, whatever calibration or the previous
\* study left; during the study the counts hold the measurements of this
\* study only.
C13_StudyReset ==
    /\ (pc \in StudyPcs /\ si = 0) =>
          tly = ZeroTally /\ total_runs = 0 /\ total_ticks = 0
    /\ pc \in StudyPcs =>
          /\ total_runs = si
          /\ \A p \in Pos : SumNum(tly[p], 0) = si

\* a test-key study starts after calibration and two studies have run
C13_Witness ==
    /\ pc = "study_loop" /\ si = 0
    /\ studied = 2 /\ cal_n = runs
    /\ tly = ZeroTally /\ total_runs = 0 /\ total_ticks = 0

\* the place in bf.dat of the length byte of position p, counted from 0
RECURSIVE Offset(_)
Offset(p) == IF p = 0 THEN 0 ELSE Offset(p - 1) + 1 + lens[p - 1]

\* C14: every pool length read from bf.dat is in 1 .. NByte (256 in the
\* program), a length byte of 0 giving NByte; the pool holds exactly the
\* lens[p] bytes that follow the length byte; whenever a candidate is
\* assembled every index is in 0 .. lens[p] - 1, and each byte of the
\* assembled key is a candidate of its pool.
C14_IndexBounds ==
    (bf_exists /\ pc \in {"bf_read", "bf_loop", "bf_carry", "bf_ret"}) =>
        /\ \A p \in 0 .. (bi - 1) :
              /\ lens[p] >= 1 /\ lens[p] <= NByte
              /\ bf_data[Offset(p) + 1] = lens[p] % NByte
              /\ DOMAIN bytes[p] = 0 .. (lens[p] - 1)
              /\ \A j \in 0 .. (lens[p] - 1) :
                    bytes[p][j] = bf_data[Offset(p) + 2 + j]
        /\ (bi = NPos) =>
              /\ \A p \in Pos : indices[p] >= 0 /\ indices[p] < lens[p]
              /\ \A ix \in tried : \A p \in Pos : ix[p] >= 0 /\ ix[p] < lens[p]
              /\ (attempts > 0) =>
                    \A p \in Pos : \E j \in 0 .. (lens[p] - 1) : key[p] = bytes[p][j]

\* a pool announced by a length byte of 0 has been searched to its last
\* candidate
C14_Witness ==
    /\ PoolsRead /\ pc = "bf_carry"
    /\ \E p \in Pos :
          /\ bf_data[Offset(p) + 1] = 0
          /\ lens[p] = NByte
          /\ indices[p] = NByte - 1
          /\ key[p] = bytes[p][NByte - 1]

\* the reference ciphertext: the zero block under the target key
Reference == aes(cleartext, aes_expand(target_key))

\* C15: brute_force returns 0 only with encdata, the zero block encrypted
\* under the last assembled key, equal to the reference ciphertext; the
\* reference is the zero block under target_key from its computation on;
\* a matching index vector is the last one tried and ends the search.
C15_Soundness ==
    /\ (bf_exists /\ pc \in {"bf_read", "bf_loop", "bf_carry", "bf_ret"}) =>
          target_enctext = Reference
    /\ (rc = 0) =>
          /\ pc \in {"bf_ret", "exit"}
          /\ attempts > 0
          /\ encdata = aes(cleartext, aes_expand(key))
          /\ encdata = target_enctext
          /\ key = KeyOf(indices)
    /\ \A ix \in tried :
          (aes(cleartext, aes_expand(KeyOf(ix))) = target_enctext) =>
              ix = indices /\ rc = 0 /\ pc \in {"bf_ret", "exit"}

\* a match found after several failed attempts
C15_Witness ==
    /\ pc = "bf_ret" /\ rc = 0
    /\ attempts > 2
    /\ encdata = Reference
    /\ \E p \in Pos : indices[p] > 0

\* C12: no run expands a key between its two tick reads, and each timed
\* encryption uses the expansion of the key of the operation around it: the
\* calibration's test key, the study's key (target_key in study 0, the test
\* key generated for it in a later study), the candidate key of a
\* brute-force attempt, target_key for the reference ciphertext; the
\* expanded key changes only where expand_key is called.
C12_KeyExpansion ==
    [][ /\ ~timed_expand'
        /\ (pc = "calib_loop" /\ total_runs' # total_runs) =>
              /\ current_key = "test_key"
              /\ expanded_key = aes_expand(test_key)
              /\ expanded_key' = expanded_key
              /\ encdata' = aes(data', aes_expand(test_key))
        /\ (pc = "gen_run") =>
              /\ current_key = (IF run_id = 0 THEN "target_key" ELSE "test_key")
              /\ expanded_key = aes_expand(IF run_id = 0 THEN target_key
                                                        ELSE test_key)
              /\ expanded_key' = expanded_key
              /\ encdata' = aes(data, expanded_key)
        /\ (attempts' # attempts) =>
              /\ current_key' = "key"
              /\ expanded_key' = aes_expand(key')
              /\ encdata' = aes(cleartext, aes_expand(key'))
        /\ (target_enctext' # target_enctext) =>
              /\ current_key' = "target_key"
              /\ expanded_key' = aes_expand(target_key)
              /\ encdata' = aes(cleartext, aes_expand(target_key))
        /\ (expanded_key' # expanded_key) =>
              pc \in {"bf_open", "bf_loop", "calib", "study"}
      ]_vars

\* a measurement of the last study has run under that study's own test
\* key, which differs from the target key
C12_Witness ==
    /\ pc = "gen_tally"
    /\ run_id = KEYS_CAP
    /\ test_key # target_key
    /\ expanded_key = aes_expand(test_key)
    /\ encdata = aes(data, aes_expand(test_key))
    /\ ~timed_expand

====
